---- MODULE Spec2Model ----
(***************************************************************************)
(* Model of the FFT trace post-processor (src/python/_init_.py):           *)
(*   find_and_save_complex_lines  - the sentinel-toggle log segmenter      *)
(*   filter_lines_by_flw, extract_7th_column, hex_to_float,                *)
(*   parse_complex_array          - the per-segment decoding chain         *)
(*   main                         - the try/except pipeline and its exits  *)
(*                                                                         *)
(* A trace line is represented by what the code reads of its stripped      *)
(* text: the number of whitespace-separated fields (n), field 6 (f6, a     *)
(* sequence of character codes, <<>> when the line has no field 6),        *)
(* whether the text contains "c.mv     a1" (mv) and whether it contains    *)
(* "flw" (flw).  Character codes 0..15 are the hexadecimal digits, NonHex  *)
(* is any character int(.., 16) rejects.                                   *)
(* Tokens are kept below 2^31 so that int(tok, 16) fits TLC's integers;    *)
(* struct.pack's range error for values above 2^32-1 is outside the        *)
(* modelled inputs.                                                        *)
(***************************************************************************)
EXTENDS Integers, Sequences, FiniteSets

\* ------------------------------------------------------------- bounds
MaxLines == 6
MaxSegLen == 4
MaxSize == 3

\* ------------------------------------------------------------- lines
NonHex == 16

Line(n, f6, mv, flw) == [n |-> n, f6 |-> f6, mv |-> mv, flw |-> flw]

\* "" : the initial size_line, and what a blank line strips to
EmptyStr == Line(0, <<>>, FALSE, FALSE)
\* None : the initial prev_line
NoneLine == Line(-1, <<>>, FALSE, FALSE)

SentinelA == <<0, 0, 0, 0, 0, 1, 2, 3>>
SentinelB == <<0, 0, 0, 0, 0, 4, 5, 6>>

Tok1p0 == <<3, 15, 8, 0, 0, 0, 0, 0>>
Tok2p0 == <<4, 0, 0, 0, 0, 0, 0, 0>>
TokN2 == <<0, 0, 0, 0, 0, 0, 0, 2>>
TokBad == <<0, 0, NonHex, NonHex>>

LA == Line(9, SentinelA, FALSE, FALSE)
LB == Line(9, SentinelB, FALSE, FALSE)
LF1 == Line(9, Tok1p0, FALSE, TRUE)
LF2 == Line(9, Tok2p0, FALSE, TRUE)
LFbad == Line(9, TokBad, FALSE, TRUE)
LFshort == Line(3, <<>>, FALSE, TRUE)
LOther == Line(9, TokN2, FALSE, FALSE)
LM == Line(9, TokN2, TRUE, FALSE)
LMshort == Line(2, <<>>, TRUE, FALSE)
\* a line that writes the second sentinel with the size-marker instruction
LBM == Line(9, SentinelB, TRUE, FALSE)

\* the lines a log file is drawn from
FileLines == {LA, LB, LBM, LF1, LM, LMshort}
\* the lines a segment handed to the decoding chain is drawn from
SegmentLines == {LF1, LF2, LFbad, LFshort, LOther}

\* ------------------------------------------------------------- python helpers
\* truthiness of prev_line: None and "" are falsy
Truthy(l) == l # NoneLine /\ l # EmptyStr

\* seq[:size]
SliceOffByOne(seq, size) ==
    SubSeq(seq, 1, IF size + 1 < Len(seq) THEN size + 1 ELSE Len(seq))
Slice(seq, size) ==
    IF size >= 0
    THEN SubSeq(seq, 1, IF size < Len(seq) THEN size ELSE Len(seq))
    ELSE SubSeq(seq, 1, Len(seq) + size)

\* ------------------------------------------------------------- segmenter
IsSentinelTransitionOr(prev_line, line) ==
    /\ Truthy(prev_line)
    /\ prev_line.n > 6 /\ line.n > 6
    /\ (prev_line.f6 = SentinelA \/ line.f6 = SentinelB)

IsSentinelTransition(prev_line, line) ==
    /\ Truthy(prev_line)
    /\ prev_line.n > 6 /\ line.n > 6
    /\ prev_line.f6 = SentinelA /\ line.f6 = SentinelB

ToggleStaysSaving(st) ==
    IF st.is_saving
    THEN [st EXCEPT !.all_results = Append(@, st.result), !.result = <<>>]
    ELSE [st EXCEPT !.is_saving = TRUE]

Toggle(st) ==
    IF st.is_saving
    THEN [st EXCEPT !.all_results = Append(@, st.result),
                    !.result = <<>>,
                    !.is_saving = FALSE]
    ELSE [st EXCEPT !.is_saving = TRUE]

CaptureFirstWins(st, line) ==
    IF st.is_saving
    THEN [st EXCEPT !.size_line = IF line.mv /\ @ = EmptyStr THEN line ELSE @,
                    !.result = Append(@, line)]
    ELSE st

CaptureMarkerAlways(st, line) ==
    LET s == [st EXCEPT !.size_line = IF line.mv THEN line ELSE @]
    IN  IF st.is_saving THEN [s EXCEPT !.result = Append(@, line)] ELSE s

Capture(st, line) ==
    IF st.is_saving
    THEN [st EXCEPT !.size_line = IF line.mv THEN line ELSE @,
                    !.result = Append(@, line)]
    ELSE st

ScanLineCaptureFirst(st, prev_line, line) ==
    LET c == Capture(st, line)
    IN  IF IsSentinelTransition(prev_line, line) THEN Toggle(c) ELSE c

\* one iteration of the for loop
ScanLine(st, prev_line, line) ==
    Capture(IF IsSentinelTransition(prev_line, line) THEN Toggle(st) ELSE st,
            line)

\* after the loop
Finalize(st) ==
    IF st.result # <<>>
    THEN [st EXCEPT !.all_results = Append(@, st.result)]
    ELSE st

ScanInit ==
    [all_results |-> <<>>, result |-> <<>>, size_line |-> EmptyStr,
     is_saving |-> FALSE]

RECURSIVE ScanAll(_, _, _, _)
ScanAll(st, prev_line, trace, i) ==
    IF i > Len(trace)
    THEN st
    ELSE ScanAll(ScanLine(st, prev_line, trace[i]), trace[i], trace, i + 1)

\* the whole function on a file holding `trace`
FindAndSaveComplexLines(trace) ==
    LET st == Finalize(ScanAll(ScanInit, NoneLine, trace, 1))
    IN  [all_results |-> st.all_results, size_line |-> st.size_line]

\* ------------------------------------------------------------- decoding chain
FilterLinesByFlw(ls) == SelectSeq(ls, LAMBDA l : l.flw)

Has7thColumn(l) == l.n > 6
Extract7thColumn(ls) ==
    LET kept == SelectSeq(ls, Has7thColumn)
    IN  [i \in 1..Len(kept) |-> kept[i].f6]

\* int(tok, 16): ValueError unless every character is a hexadecimal digit
\* (signs, a 0x prefix and underscores are outside the modelled tokens)
IsHexToken(tok) == Len(tok) > 0 /\ \A i \in 1..Len(tok) : tok[i] \in 0..15

RECURSIVE IntBase16(_)
IntBase16(tok) ==
    IF tok = <<>>
    THEN 0
    ELSE 16 * IntBase16(SubSeq(tok, 1, Len(tok) - 1)) + tok[Len(tok)]

\* struct.pack('!I', v): four bytes, most significant first
PackU32(v) ==
    <<v \div 16777216, (v \div 65536) % 256, (v \div 256) % 256, v % 256>>

\* struct.unpack('!f', bytes)[0]: sign, biased exponent, fraction of a binary32
UnpackF32(b) ==
    [s |-> b[1] \div 128,
     e |-> (b[1] % 128) * 2 + b[2] \div 128,
     m |-> (b[2] % 128) * 65536 + b[3] * 256 + b[4]]

RECURSIVE HexToFloat(_)
HexToFloat(hex_array) ==
    IF hex_array = <<>>
    THEN <<>>
    ELSE LET hex_str == Head(hex_array)
             rest == HexToFloat(Tail(hex_array))
         IN  IF IsHexToken(hex_str)
             THEN <<UnpackF32(PackU32(IntBase16(hex_str)))>> \o rest
             ELSE rest

\* the float 0.0 that complex(x, 0) stores as the imaginary part
FloatZero == [s |-> 0, e |-> 0, m |-> 0]

Complex(real, imag) == [re |-> real, im |-> imag]

RECURSIVE PairUpDropTail(_, _)
PairUpDropTail(float_array, i) ==
    IF i + 1 > Len(float_array)
    THEN <<>>
    ELSE <<Complex(float_array[i], float_array[i + 1])>>
             \o PairUpDropTail(float_array, i + 2)

\* the for loop of parse_complex_array from (1-based) index i
RECURSIVE PairUp(_, _)
PairUp(float_array, i) ==
    IF i > Len(float_array)
    THEN <<>>
    ELSE IF i + 1 <= Len(float_array)
         THEN <<Complex(float_array[i], float_array[i + 1])>>
                  \o PairUp(float_array, i + 2)
         ELSE <<Complex(float_array[i], FloatZero)>>
                  \o PairUp(float_array, i + 2)

ParseComplexArray(float_array, size) == Slice(PairUp(float_array, 1), size)

\* ------------------------------------------------------------- state
VARIABLES
    pc,              \* where main is: "open", "scan", "check", "loop", "exit"
    file_exists,     \* whether open(filename) succeeds
    lines,           \* the lines of the file read so far
    prev_line, is_saving, result, all_results, size_line,
    extracted_size, complex_arrays,
    output,          \* what main printed
    exit_status,     \* -1 while running, then the process's exit status
    d_pc, d_array, d_size, d_floats, d_complex   \* one segment's decoding

scanVars == <<lines, prev_line, is_saving, result, all_results, size_line>>
mainVars == <<pc, file_exists, extracted_size, complex_arrays, output, exit_status>>
decodeVars == <<d_pc, d_array, d_size, d_floats, d_complex>>
vars == <<scanVars, mainVars, decodeVars>>

MsgNoData == "No FFT data found in log file."
MsgNotFound == "Log file not found"
MsgSize == "FFT size detected"
MsgInsufficient == "Insufficient data arrays found. Expected at least 2 (input and output)."
MsgAnalysis == "FFT ACCURACY ANALYSIS"
MsgErrIndex == "Error processing data: list index out of range"
MsgErrInt == "Error processing data: invalid literal for int() with base 16"
MsgErrFft == "Error processing data: Invalid number of FFT data points (0) specified."
MsgErrMax == "Error processing data: max() arg is an empty sequence"

Running == -1
NoSize == -1

ScanState ==
    [all_results |-> all_results, result |-> result, size_line |-> size_line,
     is_saving |-> is_saving]

MainIdle ==
    /\ pc = "open"
    /\ file_exists \in BOOLEAN
    /\ lines = <<>>
    /\ prev_line = NoneLine
    /\ is_saving = FALSE
    /\ result = <<>>
    /\ all_results = <<>>
    /\ size_line = EmptyStr
    /\ extracted_size = NoSize
    /\ complex_arrays = <<>>
    /\ output = <<>>
    /\ exit_status = Running

DecodeIdle ==
    /\ d_pc = "idle"
    /\ d_array = <<>>
    /\ d_size = 0
    /\ d_floats = <<>>
    /\ d_complex = <<>>

SeqsUpTo(S, n) == UNION {[1..k -> S] : k \in 0..n}

\* ------------------------------------------------------------- main
Init == MainIdle /\ DecodeIdle

\* open() raises FileNotFoundError; the handler prints and main returns
OpenMissing ==
    /\ pc = "open" /\ ~file_exists
    /\ output' = Append(output, MsgNotFound)
    /\ exit_status' = 0
    /\ pc' = "exit"
    /\ UNCHANGED <<scanVars, file_exists, extracted_size, complex_arrays, decodeVars>>

OpenFile ==
    /\ pc = "open" /\ file_exists
    /\ pc' = "scan"
    /\ UNCHANGED <<scanVars, file_exists, extracted_size, complex_arrays, output,
                   exit_status, decodeVars>>

ReadLine(line) ==
    /\ pc = "scan" /\ Len(lines) < MaxLines
    /\ LET st == ScanLine(ScanState, prev_line, line)
       IN  /\ is_saving' = st.is_saving
           /\ result' = st.result
           /\ all_results' = st.all_results
           /\ size_line' = st.size_line
    /\ prev_line' = line
    /\ lines' = Append(lines, line)
    /\ UNCHANGED <<mainVars, decodeVars>>

EndOfFile ==
    /\ pc = "scan"
    /\ all_results' = Finalize(ScanState).all_results
    /\ pc' = "check"
    /\ UNCHANGED <<lines, prev_line, is_saving, result, size_line, file_exists,
                   extracted_size, complex_arrays, output, exit_status, decodeVars>>

NoDataAnd(arrays, sl) == arrays = <<>> /\ sl = EmptyStr
NoData(arrays, sl) == arrays = <<>> \/ sl = EmptyStr

\* print, then sys.exit(1): SystemExit is not an Exception, no handler catches it
ReportNoData ==
    /\ pc = "check" /\ NoData(all_results, size_line)
    /\ output' = Append(output, MsgNoData)
    /\ exit_status' = 1
    /\ pc' = "exit"
    /\ UNCHANGED <<scanVars, file_exists, extracted_size, complex_arrays, decodeVars>>

\* int(extract_7th_column([size_line])[0], 16), under except Exception
ExtractSize ==
    /\ pc = "check" /\ ~NoData(all_results, size_line)
    /\ LET cols == Extract7thColumn(<<size_line>>)
       IN  IF cols = <<>>
           THEN /\ output' = Append(output, MsgErrIndex)
                /\ exit_status' = 0 /\ pc' = "exit"
                /\ UNCHANGED extracted_size
           ELSE IF ~IsHexToken(cols[1])
           THEN /\ output' = Append(output, MsgErrInt)
                /\ exit_status' = 0 /\ pc' = "exit"
                /\ UNCHANGED extracted_size
           ELSE /\ extracted_size' = IntBase16(cols[1])
                /\ output' = Append(output, MsgSize)
                /\ pc' = "loop"
                /\ UNCHANGED exit_status
    /\ UNCHANGED <<scanVars, file_exists, complex_arrays, decodeVars>>

\* one iteration of "for i, array in enumerate(arrays)"
ProcessArray ==
    /\ pc = "loop" /\ Len(complex_arrays) < Len(all_results)
    /\ LET array == all_results[Len(complex_arrays) + 1]
           float_data == HexToFloat(Extract7thColumn(FilterLinesByFlw(array)))
       IN  complex_arrays' =
               Append(complex_arrays, ParseComplexArray(float_data, extracted_size))
    /\ UNCHANGED <<scanVars, pc, file_exists, extracted_size, output, exit_status,
                   decodeVars>>

\* the comparison, or the insufficient-arrays report; main then returns
Finish ==
    /\ pc = "loop" /\ Len(complex_arrays) = Len(all_results)
    /\ output' = Append(output,
           IF Len(complex_arrays) >= 2
           THEN IF complex_arrays[1] = <<>> THEN MsgErrFft
                ELSE IF complex_arrays[2] = <<>> THEN MsgErrMax
                ELSE MsgAnalysis
           ELSE MsgInsufficient)
    /\ exit_status' = 0
    /\ pc' = "exit"
    /\ UNCHANGED <<scanVars, file_exists, extracted_size, complex_arrays, decodeVars>>

Next ==
    \/ OpenMissing
    \/ OpenFile
    \/ \E line \in FileLines : ReadLine(line)
    \/ EndOfFile
    \/ ReportNoData
    \/ ExtractSize
    \/ ProcessArray
    \/ Finish

Spec == Init /\ [][Next]_vars

\* ------------------------------------------------------------- one segment
DecodeInit ==
    /\ MainIdle
    /\ d_pc = "start"
    /\ d_array \in SeqsUpTo(SegmentLines, MaxSegLen)
    /\ d_size \in 0..MaxSize
    /\ d_floats = <<>>
    /\ d_complex = <<>>

DecodeFloats ==
    /\ d_pc = "start"
    /\ d_floats' = HexToFloat(Extract7thColumn(FilterLinesByFlw(d_array)))
    /\ d_pc' = "parse"
    /\ UNCHANGED <<scanVars, mainVars, d_array, d_size, d_complex>>

ParseArray ==
    /\ d_pc = "parse"
    /\ d_complex' = ParseComplexArray(d_floats, d_size)
    /\ d_pc' = "done"
    /\ UNCHANGED <<scanVars, mainVars, d_array, d_size, d_floats>>

DecodeNext == DecodeFloats \/ ParseArray

SpecDecode == DecodeInit /\ [][DecodeNext]_vars

\* ------------------------------------------------------------- claim vocabulary
\* line i of tr is the current line of a sentinel transition
SentinelAt(tr, i) ==
    /\ i \in 2..Len(tr)
    /\ tr[i - 1].n > 6 /\ tr[i].n > 6
    /\ tr[i - 1].f6 = SentinelA /\ tr[i].f6 = SentinelB

TransitionsOf(tr) == {i \in 1..Len(tr) : SentinelAt(tr, i)}

\* line i is processed in state Capturing, after its own transition check
CapturingAt(tr, i) == Cardinality({k \in TransitionsOf(tr) : k <= i}) % 2 = 1

CapturedIdx(tr) ==
    LET t == TransitionsOf(tr)
    IN  {i \in 1..Len(tr) : Cardinality({k \in t : k <= i}) % 2 = 1}

\* maximal runs of a set of line numbers: where they start, where one ends
RunStarts(cap) == {i \in cap : (i - 1) \notin cap}
RunEnd(cap, s) == CHOOSE e \in cap : e >= s /\ (s..e) \subseteq cap /\ (e + 1) \notin cap
KthStart(cap, k) ==
    LET st == RunStarts(cap)
    IN  CHOOSE s \in st : Cardinality({t \in st : t < s}) = k - 1
\* the runs as a sequence of <<first, last>>
RunsOf(cap) ==
    [k \in 1..Cardinality(RunStarts(cap)) |->
        LET s == KthStart(cap, k) IN <<s, RunEnd(cap, s)>>]

CeilHalf(x) == (x + 1) \div 2
MaxOf(S) == CHOOSE x \in S : \A y \in S : y <= x
Last(seq) == seq[Len(seq)]
IsZero(f) == f.e = 0 /\ f.m = 0

\* find_and_save_complex_lines has returned to main
Returned == pc \in {"check", "loop"} \/ (pc = "exit" /\ file_exists)
Returns == [all_results |-> all_results, size_line |-> size_line]

Swap(tr, i, j) == [tr EXCEPT ![i] = tr[j], ![j] = tr[i]]
\* line i is the previous or the current line of a sentinel transition
Touches(tr, i) == SentinelAt(tr, i) \/ SentinelAt(tr, i + 1)
Exchangeable(tr, i, j) == i + 1 < j /\ ~Touches(tr, i) /\ ~Touches(tr, j)

\* ------------------------------------------------------------- C1
\* C1: the scan starts Idle; a line that completes a sentinel transition
\* toggles the state (Capturing: the open segment is emitted, reset to empty,
\* state Idle; Idle: state Capturing, nothing emitted); any other line leaves
\* the state and the emitted list alone.
C1_ToggleStep ==
    [][ /\ (pc = "open" /\ pc' = "scan") => (~is_saving' /\ all_results' = <<>>)
        /\ (pc = "scan" /\ Len(lines') = Len(lines) + 1) =>
             IF SentinelAt(lines', Len(lines'))
             THEN IF is_saving
                  THEN /\ all_results' = Append(all_results, result)
                       /\ result' = <<>>
                       /\ ~is_saving'
                  ELSE /\ is_saving'
                       /\ all_results' = all_results
             ELSE /\ is_saving' = is_saving
                  /\ all_results' = all_results ]_vars

C1_Witness ==
    /\ pc = "scan" /\ Len(lines) = 4
    /\ Cardinality(TransitionsOf(lines)) = 2
    /\ Len(all_results) = 1 /\ ~is_saving /\ result = <<>>

\* ------------------------------------------------------------- C2
\* C2: the number of returned segments is at most ceil(T / 2) + 1, T the
\* number of sentinel transitions of the trace.
C2_SegmentBound ==
    Returned =>
        Len(all_results) <= CeilHalf(Cardinality(TransitionsOf(lines))) + 1

C2_Witness ==
    /\ pc = "check"
    /\ Cardinality(TransitionsOf(lines)) = 3
    /\ Len(all_results) = 2

\* ------------------------------------------------------------- C3
\* C3 as stated: exchanging two non-adjacent lines, neither the previous nor
\* the current line of a sentinel transition, leaves the returned segments and
\* size-marker line unchanged.
C3_ExchangeInvariant ==
    pc = "check" =>
        \A i, j \in 1..Len(lines) :
            Exchangeable(lines, i, j) =>
                FindAndSaveComplexLines(Swap(lines, i, j)) = Returns

\* C3 amended: scanning the same trace again returns the same result; an
\* exchange of two non-adjacent lines that touch no sentinel transition before
\* or after the exchange keeps every segment at the same positions of the
\* trace, and keeps the whole result when both lines were read while Idle.
C3_ExchangeKeepsBoundaries ==
    pc = "check" =>
        /\ FindAndSaveComplexLines(lines) = Returns
        /\ LET cap == CapturedIdx(lines)
               runs == RunsOf(cap)
           IN  \A i, j \in 1..Len(lines) :
                 LET sw == Swap(lines, i, j)
                     r == FindAndSaveComplexLines(sw)
                 IN  (Exchangeable(lines, i, j) /\ Exchangeable(sw, i, j)) =>
                       /\ Len(r.all_results) = Len(all_results)
                       /\ \A k \in 1..Len(all_results) :
                            r.all_results[k] = SubSeq(sw, runs[k][1], runs[k][2])
                       /\ (i \notin cap /\ j \notin cap) => r = Returns

C3_Witness ==
    /\ pc = "check" /\ all_results # <<>> /\ size_line # EmptyStr
    /\ \E i, j \in 1..Len(lines) :
         /\ Exchangeable(lines, i, j)
         /\ Exchangeable(Swap(lines, i, j), i, j)
         /\ lines[i] # lines[j] /\ lines[i].mv /\ lines[j].mv
         /\ ~CapturingAt(lines, i) /\ ~CapturingAt(lines, j)

\* ------------------------------------------------------------- C4
\* C4: when the segmenter returns no segments or no size-marker line, main
\* prints only the no-data message and exits with status 1 before decoding a
\* size or building an array; the message differs from the missing-file one.
C4_NoDataIsFatal ==
    (pc = "exit" /\ file_exists /\ (all_results = <<>> \/ size_line = EmptyStr)) =>
        /\ output = <<MsgNoData>>
        /\ MsgNoData # MsgNotFound
        /\ exit_status = 1
        /\ extracted_size = NoSize
        /\ complex_arrays = <<>>

C4_Witness ==
    /\ pc = "exit" /\ file_exists
    /\ all_results # <<>> /\ size_line = EmptyStr
    /\ output = <<MsgNoData>> /\ exit_status = 1

\* ------------------------------------------------------------- C5
\* C5: a missing log file, an empty extraction and fewer than two recovered
\* arrays each end the process with its own message and a non-zero exit status.
C5_FatalExitsNonZero ==
    pc = "exit" =>
        /\ ~file_exists => (Last(output) = MsgNotFound /\ exit_status # 0)
        /\ (file_exists /\ NoData(all_results, size_line)) =>
               (Last(output) = MsgNoData /\ exit_status # 0)
        /\ (file_exists /\ extracted_size # NoSize /\ Len(complex_arrays) < 2) =>
               (Last(output) = MsgInsufficient /\ exit_status # 0)

\* ------------------------------------------------------------- C6
\* C6: a size-marker line (like a float-load line) with fewer than 7 fields or
\* a non-hexadecimal field 6 is dropped locally and never aborts the run.
C6_MalformedNeverAborts ==
    (pc = "exit" /\ file_exists /\ ~NoData(all_results, size_line)
       /\ (size_line.n <= 6 \/ ~IsHexToken(size_line.f6))) =>
        Last(output) \notin {MsgErrIndex, MsgErrInt}

\* ------------------------------------------------------------- C7
\* C7 as stated: exactly N samples when M >= 2N; ceil(M/2) samples, never N,
\* when M < 2N.
C7_TruncationNeverN ==
    d_pc = "done" =>
        /\ Len(d_floats) >= 2 * d_size => Len(d_complex) = d_size
        /\ Len(d_floats) < 2 * d_size =>
             (Len(d_complex) = CeilHalf(Len(d_floats)) /\ Len(d_complex) # d_size)

\* C7 amended: exactly N samples when M >= 2N; ceil(M/2) samples when M < 2N,
\* which is N exactly when M = 2N - 1 and fewer than N otherwise; sample k is
\* built from floats 2k-1 and 2k, with no padding samples.
C7_Truncation ==
    d_pc = "done" =>
        /\ Len(d_floats) >= 2 * d_size => Len(d_complex) = d_size
        /\ Len(d_floats) < 2 * d_size =>
             /\ Len(d_complex) = CeilHalf(Len(d_floats))
             /\ (Len(d_complex) = d_size) <=> (Len(d_floats) = 2 * d_size - 1)
             /\ Len(d_complex) <= d_size
        /\ \A k \in 1..Len(d_complex) :
             /\ 2 * k - 1 <= Len(d_floats)
             /\ d_complex[k].re = d_floats[2 * k - 1]

C7_Witness ==
    /\ d_pc = "done" /\ Len(d_floats) = 3 /\ d_size = 2 /\ Len(d_complex) = 2

\* ------------------------------------------------------------- C8
\* C8 as stated: for an odd-length float sequence and any N, the last returned
\* sample has imaginary part 0 and the last float as its real part.
C8_OddTailAnySize ==
    (d_pc = "done" /\ Len(d_floats) % 2 = 1 /\ d_complex # <<>>) =>
        /\ IsZero(Last(d_complex).im)
        /\ Last(d_complex).re = Last(d_floats)

\* C8 amended: for an odd-length float sequence and N >= ceil(M/2) (nothing is
\* truncated), the last returned sample has imaginary part 0 and the last
\* float as its real part.
C8_OddTailUntruncated ==
    (d_pc = "done" /\ Len(d_floats) % 2 = 1
       /\ d_size >= CeilHalf(Len(d_floats))) =>
        /\ d_complex # <<>>
        /\ IsZero(Last(d_complex).im)
        /\ Last(d_complex).re = Last(d_floats)

C8_Witness ==
    /\ d_pc = "done" /\ Len(d_floats) = 3 /\ d_size = 3
    /\ Len(d_complex) = 2 /\ IsZero(Last(d_complex).im)

\* ------------------------------------------------------------- C9
\* C9: the size-marker line is the last line read while Capturing (after that
\* line's transition check) whose text contains the signature, and is empty
\* exactly when there is none; signature lines read while Idle, the closing
\* line included, never set it.
C9_LastCapturedMarker ==
    LET cand == {i \in 1..Len(lines) : CapturingAt(lines, i) /\ lines[i].mv}
    IN  /\ size_line = IF cand = {} THEN EmptyStr ELSE lines[MaxOf(cand)]
        /\ (size_line = EmptyStr) <=> (cand = {})

C9_Witness ==
    /\ pc = "check" /\ Len(lines) = 6
    /\ \E i, j \in 1..Len(lines) :
         /\ i < j
         /\ CapturingAt(lines, i) /\ lines[i].mv
         /\ CapturingAt(lines, j) /\ lines[j].mv
         /\ lines[i] # lines[j] /\ size_line = lines[j]
    /\ lines[1].mv /\ lines[1] # size_line
    /\ SentinelAt(lines, 6) /\ lines[6].mv /\ ~CapturingAt(lines, 6)

\* ------------------------------------------------------------- C10
\* C10: the returned segments are exactly the maximal runs of captured lines,
\* in order; each starts with the line whose field 6 is the second sentinel; a
\* segment closed by a transition has at least two lines and ends with a line
\* whose field 6 is the first sentinel, and the closing line is in no segment;
\* segments do not overlap.
C10_BracketStructure ==
    Returned =>
        LET runs == RunsOf(CapturedIdx(lines))
            n == Len(runs)
            s(k) == runs[k][1]
            e(k) == runs[k][2]
        IN  /\ Len(all_results) = n
            /\ \A k \in 1..n :
                 /\ all_results[k] = SubSeq(lines, s(k), e(k))
                 /\ all_results[k] # <<>>
                 /\ all_results[k][1].f6 = SentinelB
                 /\ e(k) < Len(lines) =>
                      /\ SentinelAt(lines, e(k) + 1)
                      /\ Len(all_results[k]) >= 2
                      /\ Last(all_results[k]).f6 = SentinelA
                      /\ \A m \in 1..n : (e(k) + 1) \notin s(m)..e(m)
                 /\ \A m \in 1..n : m # k => (s(k)..e(k)) \cap (s(m)..e(m)) = {}

C10_Witness ==
    /\ pc = "check" /\ Len(all_results) = 2
    /\ Len(all_results[1]) >= 2 /\ Last(all_results[1]).f6 = SentinelA
    /\ all_results[2][1].f6 = SentinelB

====
